---- MODULE Spec2Model ----
(***************************************************************************)
(* A model of the expense tracker of src/main.py: the Expense record and   *)
(* its two conversions, the ExpenseTracker collection with its load/save   *)
(* lifecycle, the add / delete / update operations and the summary.        *)
(*                                                                         *)
(* Abstractions.                                                           *)
(*  - A float amount is an integer or the value NaN; FLe and FAdd give     *)
(*    NaN its IEEE behaviour (every ordered comparison with NaN is false). *)
(*  - A date string "%d-%m-%Y" is the number of the day it names, with one *)
(*    modelled day per month; NoDate is a falsy date (None or "").         *)
(*  - An optional argument is a set with at most one element: {} is None.  *)
(*  - The backing file is missing, or text that is not JSON, or a JSON     *)
(*    value: a top-level kind and, for an array or an object, the elements *)
(*    its iteration yields.                                                *)
(***************************************************************************)
EXTENDS Integers, Sequences, FiniteSets, TLC

VARIABLES
    procs,      \* the tracker instances (processes) of this run
    up,         \* up[t]: tracker t was constructed and holds a collection
    expenses,   \* expenses[t]: self.expenses of tracker t
    file,       \* the content of the backing file
    today,      \* the current date, datetime.now()
    ret,        \* the outcome of the last call
    issued      \* the ids of the records returned by add_expense, in order

vars == <<procs, up, expenses, file, today, ret, issued>>

----------------------------------------------------------------------------
\* Bounds

MaxAdds == 3
MaxLen == 2
MaxDay == 2
MaxFileLen == 2

----------------------------------------------------------------------------
\* Values

Trackers == {1, 2}
Titles == {"Coffee", "Book"}
Descriptions == {"morning", "novel"}
Fields == {"id", "title", "description", "amount", "date"}

NaN == -1000
Amounts == {-1, 0, 1, 2}
TextAmounts == {-1, 0, 1}
TextUpdateAmounts == {0, 1}
FloatAmounts == {0, 1, NaN}
Months == 1 .. 12
NoDate == 0

Opt(S) == {{}} \cup {{x} : x \in S}
Val(o) == CHOOSE x \in o : TRUE

\* a <= b on floats
FLe(a, b) == a # NaN /\ b # NaN /\ a <= b
\* a > b on floats
FGt(a, b) == a # NaN /\ b # NaN /\ a > b
\* a + b on floats
FAdd(a, b) == IF a = NaN \/ b = NaN THEN NaN ELSE a + b

MonthOf(d) == ((d - 1) % 12) + 1
YearOf(d) == (d - 1) \div 12
\* mutant: the year of the date is compared
DatetimeEqInt_year(dt, n) == YearOf(dt) = n

DatetimeEqInt(dt, n) == FALSE

----------------------------------------------------------------------------
\* Expense

Expense(id, title, description, amount, date, now) ==
    [id |-> id, title |-> title, description |-> description,
     amount |-> amount, date |-> IF date = NoDate THEN now ELSE date]

to_dict(e) ==
    [t |-> "object", has |-> Fields, id |-> e.id, title |-> e.title,
     description |-> e.description, amount |-> e.amount, date |-> e.date]

\* the exception raised by the subscripts data["id"], ..., data["date"]
from_dict_exc(data) ==
    IF data.t # "object" THEN "TypeError"
    ELSE IF Fields \ data.has # {} THEN "KeyError"
    ELSE "none"

\* mutant: the stored date is dropped and the record is dated now
from_dict_undated(data, now) ==
    Expense(data.id, data.title, data.description, data.amount, NoDate, now)

from_dict(data, now) ==
    Expense(data.id, data.title, data.description, data.amount, data.date, now)

----------------------------------------------------------------------------
\* JSON values of the backing file

JsonScalar(kind) ==
    [t |-> kind, has |-> {}, id |-> 0, title |-> "", description |-> "",
     amount |-> 0, date |-> NoDate]

JsonWithout(obj, key) == [obj EXCEPT !.has = @ \ {key}]

MissingFile == [exists |-> FALSE, syntax_ok |-> FALSE, top |-> "none", items |-> <<>>]
GarbageFile == [exists |-> TRUE, syntax_ok |-> FALSE, top |-> "none", items |-> <<>>]
JsonFile(top, items) == [exists |-> TRUE, syntax_ok |-> TRUE, top |-> top, items |-> items]

----------------------------------------------------------------------------
\* ExpenseTracker: load and save

RECURSIVE FirstBad(_, _)
\* the first element from index i on whose conversion raises, or 0
FirstBad(items, i) ==
    IF i > Len(items) THEN 0
    ELSE IF from_dict_exc(items[i]) # "none" THEN i
    ELSE FirstBad(items, i + 1)

\* mutant: the records read before the one that lacks a field are kept
load_expenses_partial(f, now) ==
    IF ~f.exists THEN [exc |-> "none", val |-> <<>>]
    ELSE IF ~f.syntax_ok THEN [exc |-> "none", val |-> <<>>]
    ELSE IF f.top \notin {"array", "object"} THEN [exc |-> "TypeError", val |-> <<>>]
    ELSE LET bad == FirstBad(f.items, 1) IN
         IF bad = 0
         THEN [exc |-> "none",
               val |-> [i \in 1 .. Len(f.items) |-> from_dict(f.items[i], now)]]
         ELSE IF from_dict_exc(f.items[bad]) = "KeyError"
         THEN [exc |-> "none",
               val |-> [i \in 1 .. bad - 1 |-> from_dict(f.items[i], now)]]
         ELSE [exc |-> "TypeError", val |-> <<>>]

load_expenses(f, now) ==
    IF ~f.exists THEN [exc |-> "none", val |-> <<>>]
    ELSE IF ~f.syntax_ok THEN [exc |-> "none", val |-> <<>>]
    ELSE IF f.top \notin {"array", "object"} THEN [exc |-> "TypeError", val |-> <<>>]
    ELSE LET bad == FirstBad(f.items, 1) IN
         IF bad = 0
         THEN [exc |-> "none",
               val |-> [i \in 1 .. Len(f.items) |-> from_dict(f.items[i], now)]]
         ELSE IF from_dict_exc(f.items[bad]) = "KeyError"
         THEN [exc |-> "none", val |-> <<>>]
         ELSE [exc |-> "TypeError", val |-> <<>>]

save_expenses(exps) ==
    JsonFile("array", [i \in 1 .. Len(exps) |-> to_dict(exps[i])])

Ids(exps) == {exps[i].id : i \in 1 .. Len(exps)}

MaxOf(S) == CHOOSE m \in S : \A x \in S : x <= m

\* mutant: the next id is taken from the length of the collection
get_next_id_len(exps) == Len(exps) + 1

\* mutant: the + 1 is missing
get_next_id_max(exps) ==
    IF exps = <<>> THEN 1 ELSE MaxOf(Ids(exps))

get_next_id(exps) ==
    IF exps = <<>> THEN 1 ELSE MaxOf(Ids(exps)) + 1

\* the index of the first record with this id, or 0
IndexOf(exps, expense_id) ==
    IF expense_id \in Ids(exps)
    THEN CHOOSE i \in 1 .. Len(exps) :
            /\ exps[i].id = expense_id
            /\ \A j \in 1 .. (i - 1) : exps[j].id # expense_id
    ELSE 0

Remove(s, i) == [j \in 1 .. (Len(s) - 1) |-> IF j < i THEN s[j] ELSE s[j + 1]]

Outcome(op, t, result) ==
    [op |-> op, t |-> t, result |-> result, total |-> 0, out |-> <<>>]

----------------------------------------------------------------------------
\* ExpenseTracker: operations

\* ExpenseTracker(): a process starts and loads the backing file
Construct(t) ==
    /\ t \in procs
    /\ LET r == load_expenses(file, today) IN
        /\ up' = [up EXCEPT ![t] = (r.exc = "none")]
        /\ expenses' = [expenses EXCEPT ![t] = r.val]
        /\ ret' = Outcome("init", t, IF r.exc = "none" THEN "ok" ELSE r.exc)
    /\ UNCHANGED <<procs, file, today, issued>>

\* mutant: the validation is amount < 0, so an amount of 0 is accepted
add_expense_lt(t, title, description, amount) ==
    /\ t \in procs /\ up[t]
    /\ IF amount # NaN /\ amount < 0
       THEN /\ ret' = Outcome("add", t, "InvalidAmount")
            /\ UNCHANGED <<expenses, file, issued>>
       ELSE /\ Len(issued) < MaxAdds
            /\ Len(expenses[t]) < MaxLen
            /\ LET expense == Expense(get_next_id(expenses[t]), title,
                                      description, amount, NoDate, today)
                   exps == Append(expenses[t], expense)
               IN /\ expenses' = [expenses EXCEPT ![t] = exps]
                  /\ file' = save_expenses(exps)
                  /\ issued' = Append(issued, expense.id)
                  /\ ret' = [Outcome("add", t, "ok") EXCEPT !.out = <<expense>>]
    /\ UNCHANGED <<procs, up, today>>

\* mutant: the file is read again before the new record is appended
add_expense_reload(t, title, description, amount) ==
    /\ t \in procs /\ up[t]
    /\ IF FLe(amount, 0)
       THEN /\ ret' = Outcome("add", t, "InvalidAmount")
            /\ UNCHANGED <<expenses, file, issued>>
       ELSE /\ Len(issued) < MaxAdds
            /\ LET current == load_expenses(file, today).val
                   expense == Expense(get_next_id(current), title,
                                      description, amount, NoDate, today)
                   exps == Append(current, expense)
               IN /\ Len(current) < MaxLen
                  /\ expenses' = [expenses EXCEPT ![t] = exps]
                  /\ file' = save_expenses(exps)
                  /\ issued' = Append(issued, expense.id)
                  /\ ret' = [Outcome("add", t, "ok") EXCEPT !.out = <<expense>>]
    /\ UNCHANGED <<procs, up, today>>

\* mutant: the new record is put in front of the collection
add_expense_prepend(t, title, description, amount) ==
    /\ t \in procs /\ up[t]
    /\ IF FLe(amount, 0)
       THEN /\ ret' = Outcome("add", t, "InvalidAmount")
            /\ UNCHANGED <<expenses, file, issued>>
       ELSE /\ Len(issued) < MaxAdds
            /\ Len(expenses[t]) < MaxLen
            /\ LET expense == Expense(get_next_id(expenses[t]), title,
                                      description, amount, NoDate, today)
                   exps == <<expense>> \o expenses[t]
               IN /\ expenses' = [expenses EXCEPT ![t] = exps]
                  /\ file' = save_expenses(exps)
                  /\ issued' = Append(issued, expense.id)
                  /\ ret' = [Outcome("add", t, "ok") EXCEPT !.out = <<expense>>]
    /\ UNCHANGED <<procs, up, today>>

add_expense(t, title, description, amount) ==
    /\ t \in procs /\ up[t]
    /\ IF FLe(amount, 0)
       THEN /\ ret' = Outcome("add", t, "InvalidAmount")
            /\ UNCHANGED <<expenses, file, issued>>
       ELSE /\ Len(issued) < MaxAdds
            /\ Len(expenses[t]) < MaxLen
            /\ LET expense == Expense(get_next_id(expenses[t]), title,
                                      description, amount, NoDate, today)
                   exps == Append(expenses[t], expense)
               IN /\ expenses' = [expenses EXCEPT ![t] = exps]
                  /\ file' = save_expenses(exps)
                  /\ issued' = Append(issued, expense.id)
                  /\ ret' = [Outcome("add", t, "ok") EXCEPT !.out = <<expense>>]
    /\ UNCHANGED <<procs, up, today>>

\* mutant: the collection is saved whether or not the id was found
delete_expense_saves(t, expense_id) ==
    /\ t \in procs /\ up[t]
    /\ LET i == IndexOf(expenses[t], expense_id)
           exps == IF i # 0 THEN Remove(expenses[t], i) ELSE expenses[t]
       IN /\ expenses' = [expenses EXCEPT ![t] = exps]
          /\ file' = save_expenses(exps)
          /\ ret' = Outcome("delete", t, IF i # 0 THEN "True" ELSE "False")
    /\ UNCHANGED <<procs, up, today, issued>>

\* mutant: the first record is removed, whatever its id
delete_expense_first(t, expense_id) ==
    /\ t \in procs /\ up[t]
    /\ LET i == IndexOf(expenses[t], expense_id) IN
       IF i # 0
       THEN LET exps == Remove(expenses[t], 1) IN
            /\ expenses' = [expenses EXCEPT ![t] = exps]
            /\ file' = save_expenses(exps)
            /\ ret' = Outcome("delete", t, "True")
       ELSE /\ ret' = Outcome("delete", t, "False")
            /\ UNCHANGED <<expenses, file>>
    /\ UNCHANGED <<procs, up, today, issued>>

delete_expense(t, expense_id) ==
    /\ t \in procs /\ up[t]
    /\ LET i == IndexOf(expenses[t], expense_id) IN
       IF i # 0
       THEN LET exps == Remove(expenses[t], i) IN
            /\ expenses' = [expenses EXCEPT ![t] = exps]
            /\ file' = save_expenses(exps)
            /\ ret' = Outcome("delete", t, "True")
       ELSE /\ ret' = Outcome("delete", t, "False")
            /\ UNCHANGED <<expenses, file>>
    /\ UNCHANGED <<procs, up, today, issued>>

\* mutant: the amount is validated before any field is assigned
update_expense_atomic(t, expense_id, title, description, amount) ==
    /\ t \in procs /\ up[t]
    /\ LET i == IndexOf(expenses[t], expense_id) IN
       IF i # 0
       THEN IF amount # {} /\ FLe(Val(amount), 0)
            THEN /\ ret' = Outcome("update", t, "InvalidAmount")
                 /\ UNCHANGED <<expenses, file>>
            ELSE LET e0 == expenses[t][i]
                     e1 == IF title # {} THEN [e0 EXCEPT !.title = Val(title)] ELSE e0
                     e2 == IF description # {}
                           THEN [e1 EXCEPT !.description = Val(description)] ELSE e1
                     e3 == IF amount # {}
                           THEN [e2 EXCEPT !.amount = Val(amount)] ELSE e2
                     exps == [expenses[t] EXCEPT ![i] = e3]
                 IN /\ expenses' = [expenses EXCEPT ![t] = exps]
                    /\ file' = save_expenses(exps)
                    /\ ret' = Outcome("update", t, "True")
       ELSE /\ ret' = Outcome("update", t, "False")
            /\ UNCHANGED <<expenses, file>>
    /\ UNCHANGED <<procs, up, today, issued>>

\* mutant: the amount is validated before the record is looked up
update_expense_validates_first(t, expense_id, title, description, amount) ==
    /\ t \in procs /\ up[t]
    /\ IF amount # {} /\ FLe(Val(amount), 0)
       THEN /\ ret' = Outcome("update", t, "InvalidAmount")
            /\ UNCHANGED <<expenses, file>>
       ELSE LET i == IndexOf(expenses[t], expense_id) IN
            IF i # 0
            THEN LET e0 == expenses[t][i]
                     e1 == IF title # {} THEN [e0 EXCEPT !.title = Val(title)] ELSE e0
                     e2 == IF description # {}
                           THEN [e1 EXCEPT !.description = Val(description)] ELSE e1
                     e3 == IF amount # {}
                           THEN [e2 EXCEPT !.amount = Val(amount)] ELSE e2
                     exps == [expenses[t] EXCEPT ![i] = e3]
                 IN /\ ret' = Outcome("update", t, "True")
                    /\ expenses' = [expenses EXCEPT ![t] = exps]
                    /\ file' = save_expenses(exps)
            ELSE /\ ret' = Outcome("update", t, "False")
                 /\ UNCHANGED <<expenses, file>>
    /\ UNCHANGED <<procs, up, today, issued>>

\* mutant: title and description are assigned whether supplied or not
update_expense_overwrite(t, expense_id, title, description, amount) ==
    /\ t \in procs /\ up[t]
    /\ LET i == IndexOf(expenses[t], expense_id) IN
       IF i # 0
       THEN LET e0 == expenses[t][i]
                e1 == [e0 EXCEPT !.title = IF title # {} THEN Val(title) ELSE ""]
                e2 == [e1 EXCEPT !.description =
                          IF description # {} THEN Val(description) ELSE ""]
            IN IF amount # {} /\ FLe(Val(amount), 0)
               THEN /\ ret' = Outcome("update", t, "InvalidAmount")
                    /\ expenses' = [expenses EXCEPT ![t][i] = e2]
                    /\ UNCHANGED file
               ELSE LET e3 == IF amount # {}
                              THEN [e2 EXCEPT !.amount = Val(amount)] ELSE e2
                        exps == [expenses[t] EXCEPT ![i] = e3]
                    IN /\ ret' = Outcome("update", t, "True")
                       /\ expenses' = [expenses EXCEPT ![t] = exps]
                       /\ file' = save_expenses(exps)
       ELSE /\ ret' = Outcome("update", t, "False")
            /\ UNCHANGED <<expenses, file>>
    /\ UNCHANGED <<procs, up, today, issued>>

update_expense(t, expense_id, title, description, amount) ==
    /\ t \in procs /\ up[t]
    /\ LET i == IndexOf(expenses[t], expense_id) IN
       IF i # 0
       THEN LET e0 == expenses[t][i]
                e1 == IF title # {} THEN [e0 EXCEPT !.title = Val(title)] ELSE e0
                e2 == IF description # {}
                      THEN [e1 EXCEPT !.description = Val(description)] ELSE e1
            IN IF amount # {} /\ FLe(Val(amount), 0)
               THEN /\ ret' = Outcome("update", t, "InvalidAmount")
                    /\ expenses' = [expenses EXCEPT ![t][i] = e2]
                    /\ UNCHANGED file
               ELSE LET e3 == IF amount # {}
                              THEN [e2 EXCEPT !.amount = Val(amount)] ELSE e2
                        exps == [expenses[t] EXCEPT ![i] = e3]
                    IN /\ ret' = Outcome("update", t, "True")
                       /\ expenses' = [expenses EXCEPT ![t] = exps]
                       /\ file' = save_expenses(exps)
       ELSE /\ ret' = Outcome("update", t, "False")
            /\ UNCHANGED <<expenses, file>>
    /\ UNCHANGED <<procs, up, today, issued>>

\* mutant: the read-only call saves the collection
list_expenses_saves(t) ==
    /\ t \in procs /\ up[t]
    /\ ret' = [Outcome("list", t, "ok") EXCEPT !.out = expenses[t]]
    /\ file' = save_expenses(expenses[t])
    /\ UNCHANGED <<procs, up, expenses, today, issued>>

list_expenses(t) ==
    /\ t \in procs /\ up[t]
    /\ ret' = [Outcome("list", t, "ok") EXCEPT !.out = expenses[t]]
    /\ UNCHANGED <<procs, up, expenses, file, today, issued>>

RECURSIVE TotalLoop(_, _, _, _, _)
\* the loop of get_total_expenses from record i on, with the running total
TotalLoop(exps, i, total, month, current_year) ==
    IF i > Len(exps) THEN total
    ELSE LET expense == exps[i]
             expense_date == expense.date
             next == IF month = {} THEN FAdd(total, expense.amount)
                     ELSE IF MonthOf(expense_date) = Val(month)
                             /\ DatetimeEqInt(expense_date, current_year)
                          THEN FAdd(total, expense.amount)
                          ELSE total
         IN TotalLoop(exps, i + 1, next, month, current_year)

\* mutant: total = expense.amount instead of total += expense.amount
get_total_expenses_assign(t, month) ==
    /\ t \in procs /\ up[t]
    /\ LET exps == expenses[t]
           last == IF exps = <<>> THEN 0 ELSE exps[Len(exps)].amount
       IN ret' = [Outcome(IF month = {} THEN "total" ELSE "total_month", t, "ok")
                     EXCEPT !.total = IF month = {} THEN last ELSE 0]
    /\ UNCHANGED <<procs, up, expenses, file, today, issued>>

get_total_expenses(t, month) ==
    /\ t \in procs /\ up[t]
    /\ ret' = [Outcome(IF month = {} THEN "total" ELSE "total_month", t, "ok")
                  EXCEPT !.total = TotalLoop(expenses[t], 1, 0, month, YearOf(today))]
    /\ UNCHANGED <<procs, up, expenses, file, today, issued>>

\* the calendar moves on between calls
Tick ==
    /\ today < MaxDay
    /\ today' = today + 1
    /\ UNCHANGED <<procs, up, expenses, file, ret, issued>>

----------------------------------------------------------------------------
\* Specifications

IdInputs == 1 .. MaxAdds

\* one tracker, constructed on a missing backing file
Init ==
    /\ procs = {1}
    /\ up = [t \in Trackers |-> t = 1]
    /\ expenses = [t \in Trackers |-> <<>>]
    /\ file = MissingFile
    /\ today = 1
    /\ ret = Outcome("init", 1, "ok")
    /\ issued = <<>>

\* the calls of a caller who draws its arguments from the sets T, D and A
Add(T, D, A) ==
    \E t \in Trackers, title \in T, description \in D, amount \in A :
        add_expense(t, title, description, amount)

Delete ==
    \E t \in Trackers, expense_id \in IdInputs : delete_expense(t, expense_id)

Update(T, D, A) ==
    \E t \in Trackers, expense_id \in IdInputs, title \in Opt(T),
       description \in Opt(D), amount \in Opt(A) :
        update_expense(t, expense_id, title, description, amount)

Restart == \E t \in Trackers : Construct(t)

List == \E t \in Trackers : list_expenses(t)

Summary == \E t \in Trackers, month \in Opt(Months) : get_total_expenses(t, month)

\* every operation, on records that differ in id, amount and date
Next ==
    \/ Restart
    \/ Add({"Coffee"}, {"morning"}, Amounts)
    \/ Delete
    \/ Update({"Coffee"}, {"morning"}, Amounts)
    \/ List
    \/ Summary
    \/ Tick

Spec == Init /\ [][Next]_vars

\* a caller who deletes only ids that are not in the collection
DeleteAbsent ==
    \E t \in Trackers, expense_id \in IdInputs :
        /\ expense_id \notin Ids(expenses[t])
        /\ delete_expense(t, expense_id)

\* add and update on records that differ in title and description
NextText ==
    \/ Restart
    \/ Add(Titles, Descriptions, TextAmounts)
    \/ DeleteAbsent
    \/ Update(Titles, Descriptions, TextUpdateAmounts)

SpecText == Init /\ [][NextText]_vars

\* the operations with amounts that are any float, NaN included
NextFloat ==
    \/ Restart
    \/ Add({"Coffee"}, {"morning"}, FloatAmounts)
    \/ Delete
    \/ Update({"Coffee"}, {"morning"}, FloatAmounts)
    \/ Summary

SpecFloat == Init /\ [][NextFloat]_vars

----------------------------------------------------------------------------
\* The scenario of three adds and a delete, one command per process, with
\* amounts in hundredths (3.50, 12.00 and 1.50 and their sums are exact floats)

ScenarioCoffee ==
    /\ issued = <<>>
    /\ add_expense(1, "Coffee", "morning", 350)

ScenarioBook ==
    /\ Len(issued) = 1
    /\ add_expense(1, "Book", "novel", 1200)

ScenarioDelete ==
    /\ Len(issued) = 2 /\ Len(expenses[1]) = 2
    /\ delete_expense(1, 1)

ScenarioPen ==
    /\ Len(issued) = 2 /\ Len(expenses[1]) = 1
    /\ add_expense(1, "Pen", "office", 150)

\* calls that are refused at any point of the scenario
ScenarioRefused ==
    \/ add_expense(1, "Tea", "afternoon", 0)
    \/ \E expense_id \in IdInputs : update_expense(1, expense_id, {}, {}, {-5})

NextScenario ==
    \/ ScenarioCoffee
    \/ ScenarioBook
    \/ ScenarioDelete
    \/ ScenarioPen
    \/ ScenarioRefused
    \/ Restart
    \/ List
    \/ Summary
    \/ Tick

SpecScenario == Init /\ [][NextScenario]_vars

\* nothing but successful adds
NextAdds ==
    \/ Add(Titles, Descriptions, {1, 2})
    \/ Tick

SpecAdds == Init /\ [][NextAdds]_vars

\* adds and updates that succeed or find nothing, on records that differ in
\* title, description and amount
NextUpdate ==
    \/ Add(Titles, Descriptions, {1})
    \/ Update(Titles, Descriptions, {1, 2})

SpecUpdate == Init /\ [][NextUpdate]_vars

\* two processes, each with a tracker constructed on the same (missing) file
InitTwo ==
    /\ procs = {1, 2}
    /\ up = [t \in Trackers |-> TRUE]
    /\ expenses = [t \in Trackers |-> <<>>]
    /\ file = MissingFile
    /\ today = 1
    /\ ret = Outcome("init", 1, "ok")
    /\ issued = <<>>

NextTwo ==
    \/ Restart
    \/ Add({"Coffee"}, {"morning"}, {1, 2})
    \/ Delete
    \/ Update({}, {}, {1, 2})

SpecTwo == InitTwo /\ [][NextTwo]_vars

----------------------------------------------------------------------------
\* A tracker constructed on a backing file with any content

RecA == to_dict(Expense(1, "Coffee", "morning", 1, 1, 1))
\* a record stored with a falsy date
RecB == [to_dict(Expense(2, "Book", "novel", 2, 1, 1)) EXCEPT !.date = NoDate]
RecNoAmount == JsonWithout(to_dict(Expense(3, "Book", "morning", 1, 1, 1)), "amount")

Elements == {RecA, RecB, RecNoAmount, JsonScalar("number")}

FileSamples ==
    {MissingFile, GarbageFile,
     JsonFile("number", <<>>), JsonFile("null", <<>>),
     JsonFile("object", <<>>), JsonFile("object", <<JsonScalar("string")>>)}
    \cup {JsonFile("array", items) :
            items \in UNION {[1 .. n -> Elements] : n \in 0 .. MaxFileLen}}

InitLoad ==
    /\ procs = {1}
    /\ up = [t \in Trackers |-> FALSE]
    /\ expenses = [t \in Trackers |-> <<>>]
    /\ file \in FileSamples
    /\ today = 1
    /\ ret = Outcome("none", 1, "ok")
    /\ issued = <<>>

NextLoad ==
    \/ Restart
    \/ Add({"Coffee"}, {"morning"}, {0, 1})
    \/ Tick

SpecLoad == InitLoad /\ [][NextLoad]_vars

----------------------------------------------------------------------------
\* Properties

Distinct(seq) ==
    \A i, j \in 1 .. Len(seq) : i # j => seq[i] # seq[j]

\* the record of the file with this id
HasStored(f, id) ==
    f.exists /\ f.syntax_ok /\ \E k \in 1 .. Len(f.items) : f.items[k].id = id
Stored(f, id) ==
    f.items[CHOOSE k \in 1 .. Len(f.items) : f.items[k].id = id]

RECURSIVE SumOver(_, _)
\* the sum of the amounts of the records at the indices in S
SumOver(exps, S) ==
    IF S = {} THEN 0
    ELSE LET i == CHOOSE x \in S : TRUE
         IN exps[i].amount + SumOver(exps, S \ {i})

\* C1: the id returned by a successful add differs from every id returned by
\* an earlier add, also after deletions (no id is ever reused).
C1_NoIdReuse == Distinct(issued)

\* C2: from a missing backing file, after any sequence of add, delete and
\* update calls, successful or failing, no two records of the in-memory
\* collection have the same id.
C2_UniqueIds ==
    \A t \in procs : Distinct([i \in 1 .. Len(expenses[t]) |-> expenses[t][i].id])

\* two live records, the second added after an earlier record was deleted
C2_Witness ==
    /\ Len(expenses[1]) = 2
    /\ Len(issued) = 3
    /\ ret.op = "add" /\ ret.result = "ok"

\* a successful update of the record id that supplies the field fld
ExplicitlySet(t, id, fld) ==
    \E title \in Opt(Titles), description \in Opt(Descriptions),
       amount \in Opt(TextUpdateAmounts) :
        /\ update_expense(t, id, title, description, amount)
        /\ ret'.result = "True"
        /\ fld = "title" => title # {}
        /\ fld = "description" => description # {}

\* C3: a title or description that a failed update left in the in-memory
\* record only (it differs from the persisted one) never reaches the file:
\* whatever the tracker does next, short of a successful update that supplies
\* that field, the persisted record keeps the field it had.
C3_PartialUpdateStaysInMemory ==
    [][\A t \in procs, fld \in {"title", "description"} :
         \A i \in 1 .. Len(expenses[t]) :
            LET e == expenses[t][i] IN
            ( /\ HasStored(file, e.id)
              /\ Stored(file, e.id)[fld] # e[fld]
              /\ HasStored(file', e.id)
              /\ ~ExplicitlySet(t, e.id, fld) )
            => Stored(file', e.id)[fld] = Stored(file, e.id)[fld]]_vars

\* C4: add_expense with amount <= 0 raises InvalidAmount and leaves the
\* in-memory collection and the persisted file exactly as they were.
C4_InvalidAddChangesNothing ==
    [][\A t \in Trackers, title \in Titles, description \in Descriptions,
          amount \in TextAmounts :
            (amount <= 0 /\ add_expense(t, title, description, amount))
            => /\ ret'.op = "add" /\ ret'.result = "InvalidAmount"
               /\ expenses' = expenses
               /\ file' = file]_vars

\* an add was refused on a collection that holds records
C4_Witness ==
    /\ ret.op = "add" /\ ret.result = "InvalidAmount"
    /\ Len(expenses[1]) = 2

\* C5: update_expense on an existing id with a supplied amount <= 0 raises
\* InvalidAmount; the record's amount is unchanged, a title or description
\* supplied in the same call is assigned to the in-memory record all the same,
\* and the file is not written.
C5_InvalidUpdateIsPartial ==
    [][\A t \in procs : \A expense_id \in Ids(expenses[t]) :
         \A title \in Opt(Titles), description \in Opt(Descriptions),
            amount \in {a \in TextUpdateAmounts : a <= 0} :
            update_expense(t, expense_id, title, description, {amount})
            => LET i == IndexOf(expenses[t], expense_id) IN
               /\ ret'.op = "update" /\ ret'.result = "InvalidAmount"
               /\ file' = file
               /\ Len(expenses'[t]) = Len(expenses[t])
               /\ expenses'[t][i].amount = expenses[t][i].amount
               /\ title # {} => expenses'[t][i].title = Val(title)
               /\ description # {} => expenses'[t][i].description = Val(description)]_vars

\* a failed update left both a title and a description that the file lacks
C5_Witness ==
    /\ ret.op = "update" /\ ret.result = "InvalidAmount"
    /\ \E i \in 1 .. Len(expenses[1]) :
          LET e == expenses[1][i] IN
          /\ HasStored(file, e.id)
          /\ Stored(file, e.id).title # e.title
          /\ Stored(file, e.id).description # e.description
          /\ Stored(file, e.id).amount = e.amount

\* the file is a sequence of complete records
WellFormed(f) ==
    /\ f.exists /\ f.syntax_ok /\ f.top = "array"
    /\ \A k \in 1 .. Len(f.items) :
          f.items[k].t = "object" /\ f.items[k].has = Fields

\* C6: constructing a tracker never raises, and on a missing file or a file
\* that is not a well-formed sequence of complete records it yields the empty
\* collection.
C6_LoadFailsOpen ==
    ret.op = "init" =>
        /\ ret.result = "ok"
        /\ ~WellFormed(file) => expenses[ret.t] = <<>>

\* C7: saving a collection and loading the file in a fresh tracker, on any
\* day, gives the same records in the same order, the stored date included.
C7_RoundTrip ==
    \A t \in procs : up[t] =>
        \A now \in 1 .. MaxDay :
            load_expenses(save_expenses(expenses[t]), now) =
                [exc |-> "none", val |-> expenses[t]]

\* a fresh tracker has loaded two saved records on a later day
C7_Witness ==
    /\ ret.op = "init" /\ ret.result = "ok"
    /\ Len(expenses[1]) = 2
    /\ expenses[1][1].date < today
    /\ expenses[1][1].amount # expenses[1][2].amount
    /\ file = save_expenses(expenses[1])

\* C8: delete_expense with an id that is not in the collection returns False,
\* leaves the in-memory collection unchanged and does not write the file.
C8_DeleteAbsentChangesNothing ==
    [][\A t \in Trackers, expense_id \in IdInputs :
            (expense_id \notin Ids(expenses[t]) /\ delete_expense(t, expense_id))
            => /\ ret'.op = "delete" /\ ret'.result = "False"
               /\ expenses' = expenses
               /\ file' = file]_vars

\* a delete found nothing in a collection that differs from the file
C8_Witness ==
    /\ ret.op = "delete" /\ ret.result = "False"
    /\ expenses[1] # <<>>
    /\ file # save_expenses(expenses[1])

\* C9: every record of the in-memory collection and of the persisted file
\* has amount > 0.
C9_AmountsPositive ==
    /\ \A t \in procs : \A i \in 1 .. Len(expenses[t]) :
          FGt(expenses[t][i].amount, 0)
    /\ \A k \in 1 .. Len(file.items) : FGt(file.items[k].amount, 0)

\* C10: get_total_expenses() with no month returns the arithmetic sum of the
\* amounts of all the records of the collection, 0 for the empty collection.
C10_TotalIsSum ==
    ret.op = "total" =>
        ret.total = SumOver(expenses[ret.t], 1 .. Len(expenses[ret.t]))

\* a total of two records of different amounts and dates, after a deletion
C10_Witness ==
    /\ ret.op = "total"
    /\ Len(expenses[1]) = 2 /\ Len(issued) = 3
    /\ expenses[1][1].amount # expenses[1][2].amount
    /\ expenses[1][1].date # expenses[1][2].date
    /\ ret.total = 3

\* C11: from an empty store, add Coffee(3.50) returns id 1, add Book(12.00)
\* returns id 2, delete 1 succeeds, add Pen(1.50) returns id 3; list then
\* returns the records with ids 2 and 3 in that order and the total with no
\* month is 13.50.
C11_Scenario ==
    /\ (ret.op = "add" /\ ret.result = "ok") =>
          /\ ret.out[1].title = "Coffee" => ret.out[1].id = 1
          /\ ret.out[1].title = "Book" => ret.out[1].id = 2
          /\ ret.out[1].title = "Pen" => ret.out[1].id = 3
    /\ ret.op = "delete" => ret.result = "True"
    /\ (Len(issued) = 3 /\ ret.op = "list") =>
          [i \in 1 .. Len(ret.out) |-> ret.out[i].id] = <<2, 3>>
    /\ (Len(issued) = 3 /\ ret.op = "total") => ret.total = 1350

\* the summary at the end of the scenario
C11_Witness ==
    /\ Len(issued) = 3
    /\ ret.op = "total"
    /\ [i \in 1 .. Len(expenses[1]) |-> expenses[1][i].title] = <<"Book", "Pen">>

\* C12: in a run of successful adds from the empty collection the k-th add
\* returns id k, so the ids are strictly increasing and pairwise distinct.
C12_AddOnlyIds ==
    /\ \A k \in 1 .. Len(issued) : issued[k] = k
    /\ \A j, k \in 1 .. Len(issued) : j < k => issued[j] < issued[k]

\* two adds were made
C12_Witness ==
    /\ Len(issued) = 2
    /\ Ids(expenses[1]) = {1, 2}
    /\ ret.op = "add" /\ ret.out[1].id = 2

\* a call that changed the collection has just returned
Mutated ==
    /\ ret.op \in {"add", "delete", "update"}
    /\ ret.result \in {"ok", "True"}

\* C13: right after each successful add, delete or update the file holds the
\* in-memory collection, and list_expenses and get_total_expenses, with or
\* without a month, change neither the collection nor the file.
C13_SaveAfterMutationOnly ==
    [][/\ Mutated' => file' = save_expenses(expenses'[ret'.t])
       /\ \A t \in procs :
            list_expenses(t) => (expenses' = expenses /\ file' = file)
       /\ \A t \in procs, month \in Opt(Months) :
            get_total_expenses(t, month) => (expenses' = expenses /\ file' = file)]_vars

\* a summary of a month on a collection that an update has changed
C13_Witness ==
    /\ ret.op = "total_month"
    /\ Len(expenses[1]) = 2
    /\ expenses[1][1].amount = 2
    /\ file = save_expenses(expenses[1])

Without(exps, expense_id) == SelectSeq(exps, LAMBDA e : e.id # expense_id)

\* C15: a successful add (amount > 0) appends exactly one record at the end
\* of the collection; its id is 1 if the collection was empty and the largest
\* existing id plus 1 otherwise; the records already present keep their fields
\* and order, the new record is returned and the collection is persisted.
C15_AddAppendsOne ==
    [][\A t \in procs : \A title \in Titles, description \in Descriptions,
                           amount \in {1, 2} :
         add_expense(t, title, description, amount)
         => LET old == expenses[t]
                n == Len(old)
                new == expenses'[t][n + 1]
            IN /\ ret'.result = "ok"
               /\ Len(expenses'[t]) = n + 1
               /\ SubSeq(expenses'[t], 1, n) = old
               /\ IF n = 0 THEN new.id = 1
                  ELSE /\ \A i \in 1 .. n : old[i].id < new.id
                       /\ \E i \in 1 .. n : old[i].id + 1 = new.id
               /\ new.title = title /\ new.description = description
               /\ new.amount = amount /\ new.date = today
               /\ ret'.out = <<new>>
               /\ WellFormed(file')
               /\ load_expenses(file', today').val = expenses'[t]]_vars

\* an add after a deletion: the collection is <<2, 3>> and 3 was returned
C15_Witness ==
    /\ ret.op = "add" /\ ret.result = "ok" /\ ret.out[1].id = 3
    /\ [i \in 1 .. Len(expenses[1]) |-> expenses[1][i].id] = <<2, 3>>
    /\ load_expenses(file, today).val = expenses[1]

C17_UpdateAbsentChangesNothing ==
    [][\A t \in procs : \A expense_id \in IdInputs \ Ids(expenses[t]) :
         \A title \in Opt(Titles), description \in Opt(Descriptions),
            amount \in Opt(TextUpdateAmounts) :
            update_expense(t, expense_id, title, description, amount)
            => /\ ret'.result = "False"
               /\ expenses' = expenses
               /\ file' = file]_vars

\* an update of an absent id was answered False while a record is stored
C17_Witness ==
    /\ ret.op = "update" /\ ret.result = "False"
    /\ Len(expenses[1]) = 1 /\ expenses[1][1].id = 1
    /\ file = save_expenses(expenses[1])

\* C18: with a month supplied the year comparison is never true, so
\* get_total_expenses(month) returns 0 for every month and every collection,
\* whatever the dates and amounts of the records.
C18_MonthTotalIsZero == ret.op = "total_month" => ret.total = 0

\* a month total was asked of two records of this year with positive amounts,
\* entered in different months
C18_Witness ==
    /\ ret.op = "total_month" /\ ret.total = 0
    /\ Len(expenses[ret.t]) = 2
    /\ \A i \in 1 .. 2 : /\ expenses[ret.t][i].amount > 0
                         /\ YearOf(expenses[ret.t][i].date) = YearOf(today)
    /\ MonthOf(expenses[ret.t][1].date) # MonthOf(expenses[ret.t][2].date)

\* the records of a collection, as a set
Records(exps) == {exps[i] : i \in 1 .. Len(exps)}

\* t has just completed a mutating operation
MutatedBy(t) == Mutated /\ ret.t = t

\* C19: last writer wins between two trackers on one file: after a successful
\* mutating operation of a tracker the file holds exactly that tracker's
\* collection, which was computed from its own memory and not from the file,
\* so what the other tracker saved before is absent; the other tracker's
\* memory is left as it was.
C19_LastWriterWins ==
    [][\A t \in procs : \A u \in procs \ {t} :
         (MutatedBy(t)' /\ <<expenses[t], file>> # <<expenses'[t], file'>>)
         => /\ file' = save_expenses(expenses'[t])
            /\ expenses'[u] = expenses[u]
            /\ ret'.op = "add" =>
                 /\ expenses'[t] = Append(expenses[t], ret'.out[1])
                 /\ ret'.out[1].id =
                      IF expenses[t] = <<>> THEN 1
                      ELSE MaxOf(Ids(expenses[t])) + 1
            /\ ret'.op = "delete" => Records(expenses'[t]) \subseteq Records(expenses[t])
            /\ ret'.op = "update" => Ids(expenses'[t]) = Ids(expenses[t])
            /\ \A e \in Records(load_expenses(file, today).val) :
                 e \notin Records(expenses'[t])
                 => e \notin Records(load_expenses(file', today').val)]_vars

\* both trackers added to the empty collection they had loaded: both were
\* given id 1 and only the record of the second one is in the file
C19_Witness ==
    /\ issued = <<1, 1>>
    /\ ret.op = "add" /\ ret.t = 2
    /\ Len(expenses[1]) = 1 /\ Len(expenses[2]) = 1
    /\ expenses[1][1].amount # expenses[2][1].amount
    /\ load_expenses(file, today).val = expenses[2]

\* f is a sequence of mappings of which at least one lacks a field, so that
\* loading it raises KeyError inside load_expenses and yields the empty
\* collection
LoadsEmptyByMalformedRecord(f) ==
    /\ f.exists /\ f.syntax_ok /\ f.top = "array"
    /\ \E k \in 1 .. Len(f.items) :
          f.items[k].t = "object" /\ f.items[k].has # Fields
    /\ load_expenses(f, today).exc = "none"

\* C20: a tracker constructed on a file that loaded as empty because of a
\* malformed record destroys the stored data with its first successful add:
\* the add returns id 1 and the file then holds exactly the new record, none
\* of the records stored before.
C20_FailOpenAddDestroys ==
    [][\A t \in procs :
         (/\ up[t]
          /\ LoadsEmptyByMalformedRecord(file)
          /\ add_expense(t, "Coffee", "morning", 1))
         => /\ expenses[t] = <<>>
            /\ ret'.result = "ok"
            /\ ret'.out[1].id = 1
            /\ file' = JsonFile("array", <<to_dict(ret'.out[1])>>)
            /\ \A k \in 1 .. Len(file.items) :
                  file.items[k] # to_dict(ret'.out[1])
                  => \A j \in 1 .. Len(file'.items) : file'.items[j] # file.items[k]]_vars

\* a tracker was constructed on a file holding a complete record followed by
\* a record without amount; its collection is empty and it can add
C20_Witness ==
    /\ ret.op = "init" /\ ret.result = "ok"
    /\ up[1] /\ expenses[1] = <<>>
    /\ file = JsonFile("array", <<RecB, RecNoAmount>>)
    /\ LoadsEmptyByMalformedRecord(file)
    /\ ENABLED add_expense(1, "Coffee", "morning", 1)

====
